---- MODULE Spec2Model ----
(***************************************************************************)
(* Model of the two pure-logic utilities of the office toolkit:            *)
(*   - Outlook.find_open_slots (office/outlook.py), the calendar           *)
(*     free-slot finder;                                                   *)
(*   - num2col / col2num (office/excel.py), the column-letter codec.       *)
(*                                                                         *)
(* Instants are integers: minutes since 00:00 of the first modelled date.  *)
(* Strings are sequences of ASCII character codes.                         *)
(***************************************************************************)
EXTENDS Integers, Sequences, FiniteSets

VARIABLES
    \* ---- find_open_slots ----
    appts,        \* argument: sequence of <<start, end>> instants
    durationArg,  \* argument: <<>> for None, <<d>> for an explicit duration
    pc,           \* position in find_open_slots
    err,          \* exception raised to the caller ("none" if none)
    hours,        \* <<09:00 of first appt's date, 18:00 of last appt's date>>
    duration,     \* effective slot duration, minutes
    slots,        \* sorted occupied markers
    open_slots,   \* subdivided free slots
    this,         \* current reportable range
    out,          \* printed lines, in order
    \* ---- num2col / col2num ----
    harness,      \* which codec call sequence is exercised
    cpc,          \* position in the codec call sequence
    num0,         \* the index first passed to num2col
    num,          \* num2col's loop variable
    result,       \* num2col's list of letters
    labels,       \* labels returned by num2col so far
    ltr,          \* argument of col2num
    colnum        \* value returned by col2num

slotVars  == <<appts, durationArg, pc, err, hours, duration, slots, open_slots, this, out>>
codecVars == <<harness, cpc, num0, num, result, labels, ltr, colnum>>
vars      == <<appts, durationArg, pc, err, hours, duration, slots, open_slots, this, out,
               harness, cpc, num0, num, result, labels, ltr, colnum>>

(***************************************************************************)
(* Bounds of the model                                                     *)
(***************************************************************************)
MaxAppts == 2
MaxNum == 10000
NonPositive == 3
MaxStrLen == 3
MaxResultLen == 4

(***************************************************************************)
(* Program constants                                                       *)
(***************************************************************************)
DayStartHour == 9
DayEndHour == 18
DefaultDuration == 30

(***************************************************************************)
(* datetime helpers                                                        *)
(***************************************************************************)
At(d, h, m) == d * 1440 + h * 60 + m
Date(t) == t \div 1440
\* .day, the day of the month: the modelled dates lie in one month
Day(t) == Date(t) + 1
Hour(t) == (t % 1440) \div 60
Minute(t) == t % 60

\* '%I:%M %p'
FmtTime(t) ==
    [I |-> IF Hour(t) % 12 = 0 THEN 12 ELSE Hour(t) % 12,
     M |-> Minute(t),
     p |-> IF Hour(t) < 12 THEN "AM" ELSE "PM"]

\* print(f'\n{this[0]:%Y-%m-%d}')
DateLine(t) == [kind |-> "date", date |-> Date(t)]

\* print(f'  {this[0]:%I:%M %p} to {this[1]:%I:%M %p}')
RangeLine(r) ==
    [kind |-> "range", start |-> r[1], end |-> r[2],
     text |-> <<FmtTime(r[1]), FmtTime(r[2])>>]

(***************************************************************************)
(* Inputs                                                                  *)
(***************************************************************************)
Times ==
    { At(0, 8, 0), At(0, 9, 0), At(0, 10, 0), At(0, 10, 15), At(0, 10, 30),
      At(0, 14, 0), At(0, 15, 0), At(0, 18, 0), At(0, 19, 0), At(1, 10, 0) }

Appointments == { <<s, e>> : s \in Times, e \in Times } \ { a \in Times \X Times : a[1] > a[2] }

ApptLists == UNION { [1..n -> Appointments] : n \in 0..MaxAppts }

DurationArgs == { <<>>, <<2 * DefaultDuration>> }

(***************************************************************************)
(* find_open_slots                                                         *)
(***************************************************************************)
\* tuple order used by sorted()
TupleLE(a, b) == a[1] < b[1] \/ (a[1] = b[1] /\ a[2] <= b[2])

RECURSIVE Insert(_, _)
Insert(x, s) ==
    IF s = <<>> THEN <<x>>
    ELSE IF TupleLE(x, Head(s)) THEN <<x>> \o s
    ELSE <<Head(s)>> \o Insert(x, Tail(s))

RECURSIVE sorted(_)
sorted(s) == IF s = <<>> THEN <<>> ELSE Insert(Head(s), sorted(Tail(s)))

Markers(h, a) == sorted(<<<<h[1], h[1]>>>> \o a \o <<<<h[2], h[2]>>>>)

\* while start + duration <= end: append [start, start + duration]
RECURSIVE SubdivideGap(_, _, _)
SubdivideGap(start, end, d) ==
    IF start + d <= end
    THEN <<<<start, start + d>>>> \o SubdivideGap(start + d, end, d)
    ELSE <<>>

\* for start, end in ((slots[i][1], slots[i+1][0]) for i in range(len(slots)-1))
RECURSIVE Subdivide(_, _, _)
Subdivide(s, i, d) ==
    IF i > Len(s) - 1 THEN <<>>
    ELSE SubdivideGap(s[i][2], s[i + 1][1], d) \o Subdivide(s, i + 1, d)

OutsideHours(t, h) == Hour(t) < Hour(h[1]) \/ Hour(t) > Hour(h[2])

\* faulty variant of FlushNext: the flushed range is kept as `this`
FlushKeepsThis(t, slot) == t

\* this = slot
FlushNext(t, slot) == slot

\* the loop over open_slots[1:], from its k-th slot on; t is `this`, o the lines
\* printed so far
RECURSIVE MergeLoop(_, _, _, _, _)
MergeLoop(t, o, os, k, h) ==
    IF k > Len(os) THEN [this |-> t, out |-> o]
    ELSE LET slot == os[k]
         IN IF OutsideHours(slot[1], h) THEN MergeLoop(t, o, os, k + 1, h)
            ELSE IF OutsideHours(slot[2], h) THEN MergeLoop(t, o, os, k + 1, h)
            ELSE IF slot[1] <= t[2]
            THEN MergeLoop(<<t[1], slot[2]>>, o, os, k + 1, h)
            ELSE MergeLoop(FlushNext(t, slot),
                           o \o <<RangeLine(t)>>
                             \o (IF Day(t[1]) # Day(slot[1])
                                 THEN <<DateLine(t[1])>> ELSE <<>>),
                           os, k + 1, h)

Init ==
    /\ appts \in ApptLists
    /\ durationArg \in DurationArgs
    /\ pc = "call"
    /\ err = "none"
    /\ hours = <<>>
    /\ duration = 0
    /\ slots = <<>>
    /\ open_slots = <<>>
    /\ this = <<>>
    /\ out = <<>>
    /\ harness = "idle"
    /\ cpc = "idle"
    /\ num0 = 0
    /\ num = 0
    /\ result = <<>>
    /\ labels = <<>>
    /\ ltr = <<>>
    /\ colnum = 0

\* lines 111-121: window from first/last appointment, default duration, sort
Call ==
    /\ pc = "call"
    /\ IF appts = <<>>
       THEN /\ pc' = "raised"
            /\ err' = "IndexError"
            /\ UNCHANGED <<hours, duration, slots>>
       ELSE /\ hours' = <<At(Date(appts[1][1]), DayStartHour, 0),
                          At(Date(appts[Len(appts)][2]), DayEndHour, 0)>>
            /\ duration' = IF durationArg = <<>> THEN DefaultDuration ELSE durationArg[1]
            /\ slots' = Markers(hours', appts)
            /\ pc' = "subdivide"
            /\ err' = err
    /\ UNCHANGED <<appts, durationArg, open_slots, this, out>>
    /\ UNCHANGED codecVars

\* lines 122-126
SubdivideAll ==
    /\ pc = "subdivide"
    /\ open_slots' = Subdivide(slots, 1, duration)
    /\ pc' = "first"
    /\ UNCHANGED <<appts, durationArg, err, hours, duration, slots, this, out>>
    /\ UNCHANGED codecVars

\* lines 127-128
First ==
    /\ pc = "first"
    /\ IF open_slots = <<>>
       THEN /\ pc' = "raised"
            /\ err' = "IndexError"
            /\ UNCHANGED <<this, out>>
       ELSE /\ this' = open_slots[1]
            /\ out' = <<DateLine(open_slots[1][1])>>
            /\ pc' = "merge"
            /\ err' = err
    /\ UNCHANGED <<appts, durationArg, hours, duration, slots, open_slots>>
    /\ UNCHANGED codecVars

\* lines 129-144, then the implicit return
Merge ==
    /\ pc = "merge"
    /\ LET m == MergeLoop(this, out, open_slots, 2, hours)
       IN /\ this' = m.this
          /\ out' = m.out
    /\ pc' = "done"
    /\ UNCHANGED <<appts, durationArg, err, hours, duration, slots, open_slots>>
    /\ UNCHANGED codecVars

Next == Call \/ SubdivideAll \/ First \/ Merge

Spec == Init /\ [][Next]_vars

(***************************************************************************)
(* num2col / col2num                                                       *)
(***************************************************************************)
\* '1', '@', 'A', 'B', 'Z', '[', 'a', 'b', 'z', '{'
Chars == { 49, 64, 65, 66, 90, 91, 97, 98, 122, 123 }

Strings == UNION { [1..n -> Chars] : n \in 0..MaxStrLen }

\* c in string.ascii_letters
IsAsciiLetter(c) == c \in 65..90 \/ c \in 97..122

\* c.upper()
Upper(c) == IF c \in 97..122 THEN c - 32 ELSE c

\* faulty variant of LetterValue: ord(c) without c.upper()
LetterValueNoUpper(c) == (c - 65) + 1

\* (ord(c.upper()) - ord('A')) + 1
LetterValue(c) == (Upper(c) - 65) + 1

\* the for loop of col2num, from the i-th character on, with accumulator n
RECURSIVE Col2NumFrom(_, _, _)
Col2NumFrom(s, i, n) ==
    IF i > Len(s) THEN n
    ELSE IF IsAsciiLetter(s[i])
    THEN Col2NumFrom(s, i + 1, n * 26 + LetterValue(s[i]))
    ELSE Col2NumFrom(s, i + 1, n)

col2num(s) == Col2NumFrom(s, 1, 0)

\* faulty variant of Divmod: divmod(num, 26), plain base 26
DivmodNaive(n) == <<n \div 26, n % 26>>

\* divmod(num-1, 26)
Divmod(n) == <<(n - 1) \div 26, (n - 1) % 26>>

\* string.ascii_uppercase[rem]
AsciiUppercase(rem) == 65 + rem

InitCodec ==
    /\ appts = <<>>
    /\ durationArg = <<>>
    /\ pc = "idle"
    /\ err = "none"
    /\ hours = <<>>
    /\ duration = 0
    /\ slots = <<>>
    /\ open_slots = <<>>
    /\ this = <<>>
    /\ out = <<>>
    /\ labels = <<>>
    /\ result = <<>>
    /\ colnum = 0
    /\ \/ /\ harness = "roundtrip"
          /\ num0 \in (0 - NonPositive)..MaxNum
          /\ num = num0
          /\ ltr = <<>>
          /\ cpc = "num2col"
       \/ /\ harness = "decode"
          /\ ltr \in Strings
          /\ num0 = 0
          /\ num = 0
          /\ cpc = "col2num"

\* one iteration of `while num:` in num2col
Num2ColLoop ==
    /\ cpc = "num2col"
    /\ num # 0
    /\ Len(result) < MaxResultLen
    /\ num' = Divmod(num)[1]
    /\ result' = <<AsciiUppercase(Divmod(num)[2])>> \o result
    /\ UNCHANGED <<harness, cpc, num0, labels, ltr, colnum>>
    /\ UNCHANGED slotVars

\* return ''.join(result); the first label returned is handed to col2num
Num2ColReturn ==
    /\ cpc = "num2col"
    /\ num = 0
    /\ labels' = Append(labels, result)
    /\ IF labels = <<>>
       THEN ltr' = result /\ cpc' = "col2num"
       ELSE ltr' = ltr /\ cpc' = "done"
    /\ UNCHANGED <<harness, num0, num, result, colnum>>
    /\ UNCHANGED slotVars

\* col2num(ltr)
Col2NumCall ==
    /\ cpc = "col2num"
    /\ colnum' = col2num(ltr)
    /\ cpc' = "decoded"
    /\ UNCHANGED <<harness, num0, num, result, labels, ltr>>
    /\ UNCHANGED slotVars

\* num2col(col2num(num2col(n))): the decoded index is encoded again
Reencode ==
    /\ cpc = "decoded"
    /\ harness = "roundtrip"
    /\ num' = colnum
    /\ result' = <<>>
    /\ cpc' = "num2col"
    /\ UNCHANGED <<harness, num0, labels, ltr, colnum>>
    /\ UNCHANGED slotVars

NextCodec == Num2ColLoop \/ Num2ColReturn \/ Col2NumCall \/ Reencode

SpecCodec == InitCodec /\ [][NextCodec]_vars

(***************************************************************************)
(* Properties of find_open_slots                                           *)
(***************************************************************************)
\* the free ranges reported (printed), in order
Ranges == SelectSeq(out, LAMBDA l : l.kind = "range")

ReportedSet == { <<Ranges[i].start, Ranges[i].end>> : i \in 1..Len(Ranges) }

\* the date headers printed, in order of printing
HeaderLines == { i \in 1..Len(out) : out[i].kind = "date" }

Returned == pc = "done"

\* appointments i and j share a positive length of time
Overlapping(a, b) == a[1] < b[2] /\ b[1] < a[2]

\* the 30-minute cells of the working window of date d
Cells(d) == { At(d, DayStartHour, 0) + DefaultDuration * i :
                i \in 0..(((DayEndHour - DayStartHour) * 60) \div DefaultDuration - 1) }

CellFree(c) ==
    \A i \in 1..Len(appts) : ~Overlapping(appts[i], <<c, c + DefaultDuration>>)

\* the maximal runs of free cells of date d: the expected free ranges
MaximalGaps(d) ==
    LET bounds == Cells(d) \cup {At(d, DayEndHour, 0)}
        run(s, e) == \A c \in Cells(d) : (s <= c /\ c < e) => CellFree(c)
        opens(s) == s = At(d, DayStartHour, 0) \/ ~CellFree(s - DefaultDuration)
        closes(e) == e = At(d, DayEndHour, 0) \/ ~CellFree(e)
    IN { g \in bounds \X bounds :
           g[1] < g[2] /\ run(g[1], g[2]) /\ opens(g[1]) /\ closes(g[2]) }

\* C1's case: default duration, one date, pairwise disjoint, inside 09:00-18:00,
\* aligned to 30 minutes
C1Case ==
    /\ appts # <<>>
    /\ durationArg = <<>>
    /\ \A i \in 1..Len(appts) :
         /\ Date(appts[i][1]) = Date(appts[1][1])
         /\ Date(appts[i][2]) = Date(appts[1][1])
         /\ At(Date(appts[1][1]), DayStartHour, 0) <= appts[i][1]
         /\ appts[i][2] <= At(Date(appts[1][1]), DayEndHour, 0)
         /\ appts[i][1] % DefaultDuration = 0
         /\ appts[i][2] % DefaultDuration = 0
    /\ \A i, j \in 1..Len(appts) : i # j => ~Overlapping(appts[i], appts[j])

\* C1: for disjoint, in-window, 30-minute-aligned appointments on one date the
\* ranges reported when find_open_slots returns are exactly the maximal free
\* gaps of 09:00-18:00, each once, the one ending at 18:00 included.
C1_ExactMaximalGaps ==
    (Returned /\ C1Case) =>
        /\ ReportedSet = MaximalGaps(Date(appts[1][1]))
        /\ Len(Ranges) = Cardinality(MaximalGaps(Date(appts[1][1])))

\* C4: an empty appointment sequence ends in EmptyScheduleError, with no
\* output line.
C4_EmptyScheduleError ==
    (appts = <<>> /\ pc # "call") =>
        (pc = "raised" /\ err = "EmptyScheduleError" /\ out = <<>>)

\* C5: when the appointments leave no free slot, find_open_slots returns
\* normally with zero reported ranges instead of raising on open_slots[0].
C5_NoFreeTimeIsEmptyResult ==
    (appts # <<>> /\ open_slots = <<>> /\ pc \notin {"call", "subdivide", "first"}) =>
        (pc = "done" /\ err = "none" /\ Ranges = <<>>)

\* C6: every reported range has start < end, and the reported ranges are in
\* non-decreasing start order with no two consecutive ranges overlapping.
C6_RangesOrderedDisjoint ==
    \A i \in 1..Len(Ranges) :
        /\ Ranges[i].start < Ranges[i].end
        /\ i > 1 => /\ Ranges[i - 1].start <= Ranges[i].start
                    /\ Ranges[i - 1].end <= Ranges[i].start

\* C6's case: an unsorted list with overlapping appointments, and at least two
\* ranges reported
C6_Witness ==
    /\ Returned
    /\ Len(Ranges) >= 2
    /\ \E i, j \in 1..Len(appts) :
         i < j /\ appts[j][1] < appts[i][1] /\ Overlapping(appts[i], appts[j])

\* C7: every reported range lies inside the working window of its date: it
\* does not start before 09:00 and does not end after 18:00.
C7_ClippedToWindow ==
    \A i \in 1..Len(Ranges) :
        /\ At(Date(Ranges[i].start), DayStartHour, 0) <= Ranges[i].start
        /\ Ranges[i].end <= At(Date(Ranges[i].start), DayEndHour, 0)

\* C9: no date header is printed twice, and each range line stands under the
\* header of its own date (the nearest header before it is that date's).
C9_OneHeaderPerDate ==
    /\ \A i, j \in HeaderLines : out[i].date = out[j].date => i = j
    /\ \A k \in 1..Len(out) :
         out[k].kind = "range" =>
            \E i \in HeaderLines :
                /\ i < k
                /\ \A j \in HeaderLines : j < k => j <= i
                /\ out[i].date = Date(out[k].start)

\* C10: no reported range shares a positive length of time with any
\* appointment of the input.
C10_NoRangeOverlapsAppointment ==
    \A i \in 1..Len(Ranges) : \A j \in 1..Len(appts) :
        ~Overlapping(<<Ranges[i].start, Ranges[i].end>>, appts[j])

(***************************************************************************)
(* Properties of num2col / col2num                                         *)
(***************************************************************************)
\* col2num has returned for the label of num0
Decoded == cpc = "decoded" \/ cpc = "done" \/ (cpc = "num2col" /\ labels # <<>>)

\* C2: for n in 1..MaxNum, col2num(num2col(n)) = n, and encoding the decoded
\* index again returns the first label.
C2_RoundTrip ==
    (harness = "roundtrip" /\ num0 \in 1..MaxNum) =>
        /\ Decoded => colnum = num0
        /\ cpc = "done" => labels[2] = labels[1]

\* C2's case: the round trip of 10000 ("NTP") has completed
C2_Witness ==
    /\ harness = "roundtrip"
    /\ num0 = 10000
    /\ cpc = "done"
    /\ labels = << <<78, 84, 80>>, <<78, 84, 80>> >>
    /\ colnum = 10000

\* C3: num2col called with n < 1 never returns a label: once the call is
\* over, it has raised InvalidIndex.
C3_InvalidIndex ==
    (harness = "roundtrip" /\ num0 < 1 /\ cpc # "num2col") =>
        (err = "InvalidIndex" /\ labels = <<>>)

\* letters upper-cased, every other character removed
RECURSIVE Normalise(_)
Normalise(s) ==
    IF s = <<>> THEN <<>>
    ELSE IF IsAsciiLetter(Head(s)) THEN <<Upper(Head(s))>> \o Normalise(Tail(s))
    ELSE Normalise(Tail(s))

\* C8: col2num's result is its result on the input with non-letters removed
\* and letters upper-cased, and is 0 when the input has no letter.
C8_CaseAndNonLetterInsensitive ==
    cpc = "decoded" =>
        /\ colnum = col2num(Normalise(ltr))
        /\ Normalise(ltr) = <<>> => colnum = 0

\* C8's case: col2num("Ab1") has returned 28, the value of "AB"
C8_Witness ==
    /\ harness = "decode"
    /\ cpc = "decoded"
    /\ ltr = <<65, 98, 49>>
    /\ colnum = 28
    /\ col2num(<<65, 66>>) = 28
    /\ col2num(<<97, 98>>) = 28

====
